---- MODULE Spec2Model ----
(***************************************************************************)
(* Task-tracking HTTP service of src/main.go.                              *)
(*                                                                         *)
(* The file holds two builds of the program (two `package main` units):    *)
(*   "global": handlers over the package-level map `tasks` (lines 1-115);  *)
(*   "mapdb" : Server handlers over MapDB.Data            (lines 117-337). *)
(* `build` is fixed by Init and selects which one runs.  net/http serves   *)
(* every request on its own goroutine and neither build takes a lock, so   *)
(* a handler is a sequence of steps, one per access to shared state (the   *)
(* map, the clock); steps of different requests interleave freely.         *)
(*                                                                         *)
(* main of the mapdb build (line 151) constructs Server{} and leaves DB    *)
(* unset.  The store operations are modelled as they run once DB is bound  *)
(* to a MapDB whose Data map is allocated and empty.                       *)
(***************************************************************************)
EXTENDS Integers, Sequences, FiniteSets, TLC

VARIABLES build, tasks, Data, now, uuids, proc, resp, nreq, crashed, snaps

vars == <<build, tasks, Data, now, uuids, proc, resp, nreq, crashed, snaps>>

----------------------------------------------------------------------------
(* Bounds of the model *)

\* number of request goroutines that can be in flight together
NumProcs == 2
\* total number of requests served
MaxReqs == 3
\* the clock runs 1..MaxTime
MaxTime == 2
\* longest array a POST body carries in the mapdb build
MaxBatch == 2

Procs == 1..NumProcs

----------------------------------------------------------------------------
(* Values *)

Builds == {"global", "mapdb"}

\* values uuid.New().String() can return
UUIDs == {"a", "b"}
\* ids a client can put in a body; "" is the id of a body that has no "id"
ClientIds == {"", "a"}
\* ids a client can put after /tasks/ in the URL path
PathIds == {"", "a", "b"}

ZeroTask ==
    [ID |-> "", Title |-> "", Status |-> "",
     CreatedAt |-> 0, UpdatedAt |-> 0, ArchivedAt |-> 0]

\* Task values a POST body decodes to: {"title":"t1"}, and a body that also
\* gives an id, a status and the three timestamps.  Times are clock values,
\* 0 is the zero time.Time.
ClientTask(i, s) ==
    [ID |-> i, Title |-> "t1",
     Status |-> IF s THEN "done" ELSE "",
     CreatedAt |-> IF s THEN 1 ELSE 0,
     UpdatedAt |-> IF s THEN 1 ELSE 0,
     ArchivedAt |-> IF s THEN 1 ELSE 0]

ClientTasks == {ClientTask("", FALSE), ClientTask("a", TRUE)}

\* JSON values of a field of a PUT body, as map[string]interface{} holds them
Absent == [kind |-> "absent", val |-> ""]
Num == [kind |-> "number", val |-> ""]
Str(s) == [kind |-> "string", val |-> s]

NoData == [title |-> Absent, status |-> Absent]

\* decoded PUT bodies; err: json Decode returned an error (the map stays empty)
UpdateBodies ==
    { [err |-> FALSE, data |-> [title |-> t, status |-> s]] :
          t \in {Absent, Num, Str("t2")}, s \in {Absent, Num, Str("done")} }
    \cup { [err |-> TRUE, data |-> NoData] }

\* decoded POST bodies of the global build (one Task)
CreateBodies ==
    { [err |-> FALSE, task |-> t] : t \in ClientTasks }
    \cup { [err |-> TRUE, task |-> ZeroTask] }

RECURSIVE SeqsUpTo(_, _)
SeqsUpTo(S, n) ==
    IF n = 0 THEN {<<>>}
    ELSE LET shorter == SeqsUpTo(S, n - 1)
         IN  shorter \cup { Append(q, x) : q \in {r \in shorter : Len(r) = n - 1}, x \in S }

\* decoded POST bodies of the mapdb build (an array of Task); err: Decode
\* returned an error, which Server.AddTasks drops, keeping what was decoded
BatchBodies ==
    { [err |-> e, tasks |-> q] : e \in BOOLEAN, q \in SeqsUpTo(ClientTasks, MaxBatch) }

----------------------------------------------------------------------------
(* Pure parts of the handlers *)

\* v.(string): the type assertion of lines 103, 106, 310, 315
IsString(v) == v.kind = "string"

\* addTask, lines 60-61
addTaskStamp(task, id, t) == [task EXCEPT !.ID = id, !.CreatedAt = t]
\* addTask without line 62: updated_at is left as the body gave it
addTaskFinishNoUpdatedAt(task, t) == [task EXCEPT !.Status = "new"]

\* addTask, lines 62-63
addTaskFinish(task, t) == [task EXCEPT !.UpdatedAt = t, !.Status = "new"]

\* archiveTask without line 90: the status is left as it was
archiveTaskMarkNoStatus(task, t) == [task EXCEPT !.ArchivedAt = t]

\* archiveTask, lines 90-91
archiveTaskMark(task, t) == [task EXCEPT !.Status = "archived", !.ArchivedAt = t]
\* archiveTask, line 92
archiveTaskTouch(task, t) == [task EXCEPT !.UpdatedAt = t]

\* updateTask, lines 103-109
updateTask(task, data, t) ==
    [task EXCEPT !.Title = IF IsString(data.title) THEN data.title.val ELSE @,
                 !.Status = IF IsString(data.status) THEN data.status.val ELSE @,
                 !.UpdatedAt = t]

\* MapDB.AddTasks, line 287
AddTasksStamp(task, t) == [task EXCEPT !.CreatedAt = t]
\* MapDB.AddTasks, lines 288-289
AddTasksFinish(task, t) == [task EXCEPT !.UpdatedAt = t, !.Status = "recently-created"]

\* MapDB.UpdateTask, lines 310-321
UpdateTask(task, data, t) ==
    [task EXCEPT !.Title = IF IsString(data.title) THEN data.title.val ELSE @,
                 !.Status = "recently-updated",
                 !.UpdatedAt = t]

\* MapDB.ArchiveTask, line 331
ArchiveTaskMark(task, t) == [task EXCEPT !.ArchivedAt = t]
\* MapDB.ArchiveTask, lines 332-333
ArchiveTaskFinish(task, t) == [task EXCEPT !.UpdatedAt = t, !.Status = "archived"]

\* a map assignment that keeps no other entry
PutOnly(m, k, v) == [x \in {k} |-> v]

\* m[k] = v on a Go map
Put(m, k, v) == [x \in DOMAIN m \cup {k} |-> IF x = k THEN v ELSE m[x]]

\* http.ResponseWriter: the first status written is the one sent
WriteHeader(code, c) == IF code = 0 THEN c ELSE code

----------------------------------------------------------------------------
(* State *)

Idle ==
    [pc |-> "idle", method |-> "", id |-> "", code |-> 0,
     task |-> ZeroTask, data |-> NoData, list |-> <<>>, count |-> 0,
     acc |-> <<>>, todo |-> {}]

\* resp is the response the latest step wrote, NoResp when it wrote none
NoResp ==
    [method |-> "", id |-> "", code |-> 0, kind |-> "none", body |-> ZeroTask, count |-> 0,
     items |-> {}]

Init ==
    /\ build \in Builds
    /\ tasks = <<>>
    /\ Data = <<>>
    /\ now = 1
    /\ uuids = {}
    /\ proc = [p \in Procs |-> Idle]
    /\ resp = NoResp
    /\ nreq = 0
    /\ crashed = FALSE
    /\ snaps = [p \in Procs |-> {}]

\* the store of the running build
Store == IF build = "global" THEN tasks ELSE Data

\* the response of request p: its status (the first one written), its body
Response(p, code, kind, body, count) ==
    [method |-> proc[p].method, id |-> proc[p].id,
     code |-> WriteHeader(proc[p].code, code), kind |-> kind,
     body |-> body, count |-> count, items |-> {}]

\* the handler of p writes its response and returns
Respond(p, code, kind, body, count) ==
    /\ resp' = Response(p, code, kind, body, count)
    /\ proc' = [proc EXCEPT ![p] = Idle]
    /\ snaps' = [snaps EXCEPT ![p] = {}]

\* the handler of p goes on to its next step
Goto(p, rec) ==
    /\ proc' = [proc EXCEPT ![p] = rec]
    /\ resp' = NoResp
    /\ snaps' = snaps

\* snaps[q] is history, not program state: the contents the map has had since
\* the list request q came in ({} when q is no list request).  A step that
\* leaves the map as m adds m for every list request in flight.
Seen(m) == [q \in Procs |-> IF snaps[q] = {} THEN {} ELSE snaps[q] \cup {m}]

\* Respond, for a step that has left the map as m
RespondStored(p, m, code, kind, body, count) ==
    /\ resp' = Response(p, code, kind, body, count)
    /\ proc' = [proc EXCEPT ![p] = Idle]
    /\ snaps' = Seen(m)

\* Goto, for a step that has left the map as m
GotoStored(p, m, rec) ==
    /\ proc' = [proc EXCEPT ![p] = rec]
    /\ resp' = NoResp
    /\ snaps' = Seen(m)

\* the records of a map, as the JSON array lists them (in no order)
Records(m) == {m[k] : k \in DOMAIN m}

\* the handler of p answers 200 with the tasks it collected and returns
RespondList(p, kind, acc) ==
    /\ resp' = [Response(p, 200, kind, ZeroTask, 0) EXCEPT !.items = Records(acc)]
    /\ proc' = [proc EXCEPT ![p] = Idle]
    /\ snaps' = [snaps EXCEPT ![p] = {}]

Methods == {"GET", "POST", "PUT", "DELETE"}

\* ServeMux routes a request to its handler on a new goroutine
\* (lines 26-27, 35-42, 72-73; 153-154, 177-186, 217-232)
Request(p) ==
    /\ ~crashed
    /\ proc[p].pc = "idle"
    \* goroutines are interchangeable: the request takes the first free one
    /\ \A q \in Procs : q < p => proc[q].pc # "idle"
    /\ nreq < MaxReqs
    /\ nreq' = nreq + 1
    /\ \E m \in Methods, i \in PathIds, all \in BOOLEAN :
         \* all: the path is /tasks, the tasks as a whole; else it is /tasks/i
         /\ m = "POST" => all
         /\ all => m \in {"GET", "POST"} /\ i = ""
         /\ snaps' = [snaps EXCEPT ![p] = IF all /\ m = "GET" THEN {Store} ELSE {}]
         /\ proc' = [proc EXCEPT ![p] =
               [Idle EXCEPT
                  !.method = m,
                  !.id = i,
                  \* line 220-222: "ID is required" is written and the handler goes on
                  !.code = IF build = "mapdb" /\ ~all /\ i = "" THEN 404 ELSE 0,
                  !.pc = CASE m = "POST" -> IF build = "global" THEN "addTask56" ELSE "AddTasks202"
                           [] all -> IF build = "global" THEN "getTasks46" ELSE "GetAllTasks279"
                           [] build = "global" -> "byID74"
                           [] m = "GET" -> "GetTask296"
                           [] m = "PUT" -> "UpdateTask305"
                           [] OTHER -> "ArchiveTask327"]]
    /\ resp' = NoResp
    /\ UNCHANGED <<build, tasks, Data, now, uuids, crashed>>

\* the clock advances
Tick ==
    /\ ~crashed
    /\ now < MaxTime
    /\ now' = now + 1
    /\ resp' = NoResp
    /\ UNCHANGED <<build, tasks, Data, uuids, proc, nreq, crashed, snaps>>

----------------------------------------------------------------------------
(* Build "global": handlers over the package-level map `tasks` *)

\* addTask, lines 55-61: decode the body, take a new uuid, read the clock
addTaskDecode(p) ==
    /\ ~crashed /\ build = "global"
    /\ proc[p].pc = "addTask56"
    /\ \E b \in CreateBodies :
         IF b.err
         THEN /\ Respond(p, 400, "error", ZeroTask, 0)
              /\ UNCHANGED uuids
         ELSE \E u \in UUIDs \ uuids :
                /\ uuids' = uuids \cup {u}
                /\ Goto(p, [proc[p] EXCEPT !.task = addTaskStamp(b.task, u, now),
                                           !.pc = "addTask62"])
    /\ UNCHANGED <<build, tasks, Data, now, nreq, crashed>>

\* addTask, lines 62-63: read the clock again, set the status
addTaskUpdatedAt(p) ==
    /\ ~crashed /\ build = "global"
    /\ proc[p].pc = "addTask62"
    /\ Goto(p, [proc[p] EXCEPT !.task = addTaskFinish(@, now), !.pc = "addTask65"])
    /\ UNCHANGED <<build, tasks, Data, now, uuids, nreq, crashed>>

\* addTask, lines 65-69: store the task, answer 201 with it
addTaskStore(p) ==
    /\ ~crashed /\ build = "global"
    /\ proc[p].pc = "addTask65"
    /\ tasks' = Put(tasks, proc[p].task.ID, proc[p].task)
    /\ RespondStored(p, tasks', 201, "task", proc[p].task, 0)
    /\ UNCHANGED <<build, Data, now, uuids, nreq, crashed>>

\* handlerTaskByID, lines 74-86: look the id up; GET answers with the copy
handlerTaskByID(p) ==
    /\ ~crashed /\ build = "global"
    /\ proc[p].pc = "byID74"
    /\ IF proc[p].id \notin DOMAIN tasks
       THEN Respond(p, 404, "error", ZeroTask, 0)
       ELSE CASE proc[p].method = "GET" ->
                   Respond(p, 200, "task", tasks[proc[p].id], 0)
              [] proc[p].method = "DELETE" ->
                   Goto(p, [proc[p] EXCEPT !.task = tasks[proc[p].id], !.pc = "archiveTask90"])
              [] OTHER ->
                   Goto(p, [proc[p] EXCEPT !.task = tasks[proc[p].id], !.pc = "updateTask99"])
    /\ UNCHANGED <<build, tasks, Data, now, uuids, nreq, crashed>>

\* archiveTask, lines 90-91
archiveTaskArchivedAt(p) ==
    /\ ~crashed /\ build = "global"
    /\ proc[p].pc = "archiveTask90"
    /\ Goto(p, [proc[p] EXCEPT !.task = archiveTaskMark(@, now), !.pc = "archiveTask92"])
    /\ UNCHANGED <<build, tasks, Data, now, uuids, nreq, crashed>>

\* archiveTask, line 92
archiveTaskUpdatedAt(p) ==
    /\ ~crashed /\ build = "global"
    /\ proc[p].pc = "archiveTask92"
    /\ Goto(p, [proc[p] EXCEPT !.task = archiveTaskTouch(@, now), !.pc = "archiveTask93"])
    /\ UNCHANGED <<build, tasks, Data, now, uuids, nreq, crashed>>

\* archiveTask, lines 93-95
archiveTaskStore(p) ==
    /\ ~crashed /\ build = "global"
    /\ proc[p].pc = "archiveTask93"
    /\ tasks' = Put(tasks, proc[p].task.ID, proc[p].task)
    /\ RespondStored(p, tasks', 204, "none", ZeroTask, 0)
    /\ UNCHANGED <<build, Data, now, uuids, nreq, crashed>>

\* updateTask, lines 99-109: decode the body (on an error 400 is written and
\* the handler goes on with the empty map), merge, read the clock
updateTaskMerge(p) ==
    /\ ~crashed /\ build = "global"
    /\ proc[p].pc = "updateTask99"
    /\ \E b \in UpdateBodies :
         Goto(p, [proc[p] EXCEPT !.data = b.data,
                                 !.code = IF b.err THEN WriteHeader(@, 400) ELSE @,
                                 !.task = updateTask(@, b.data, now),
                                 !.pc = "updateTask111"])
    /\ UNCHANGED <<build, tasks, Data, now, uuids, nreq, crashed>>

\* updateTask, lines 111-114
updateTaskStore(p) ==
    /\ ~crashed /\ build = "global"
    /\ proc[p].pc = "updateTask111"
    /\ tasks' = Put(tasks, proc[p].task.ID, proc[p].task)
    /\ RespondStored(p, tasks', 200, "task", proc[p].task, 0)
    /\ UNCHANGED <<build, Data, now, uuids, nreq, crashed>>

\* getTasks, lines 45-51: one turn of the range over the map.  The range
\* either produces an entry it has not produced yet, which is appended as
\* the map holds it now, or it ends and the list is encoded.  It ends only
\* when every key the map held when it began has been produced (todo); an
\* entry created since may be produced or left out.
getTasks(p) ==
    /\ ~crashed /\ build = "global"
    /\ proc[p].pc \in {"getTasks46", "getTasks47"}
    /\ LET todo == IF proc[p].pc = "getTasks46" THEN DOMAIN tasks ELSE proc[p].todo
       IN  \/ \E k \in DOMAIN tasks \ DOMAIN proc[p].acc :
                Goto(p, [proc[p] EXCEPT !.acc = Put(@, k, tasks[k]),
                                        !.todo = todo \ {k},
                                        !.pc = "getTasks47"])
           \/ /\ todo = {}
              /\ RespondList(p, "list", proc[p].acc)
    /\ UNCHANGED <<build, tasks, Data, now, uuids, nreq, crashed>>

----------------------------------------------------------------------------
(* Build "mapdb": Server handlers over MapDB.Data *)

\* Server.GetAllTasks over MapDB.GetAllTasks, lines 190-198, 277-283: one turn
\* of the range over the map, as in getTasks; the slice starts nil, so that
\* with no entry produced the body encoded is null
GetAllTasks(p) ==
    /\ ~crashed /\ build = "mapdb"
    /\ proc[p].pc \in {"GetAllTasks279", "GetAllTasks280"}
    /\ LET todo == IF proc[p].pc = "GetAllTasks279" THEN DOMAIN Data ELSE proc[p].todo
       IN  \/ \E k \in DOMAIN Data \ DOMAIN proc[p].acc :
                Goto(p, [proc[p] EXCEPT !.acc = Put(@, k, Data[k]),
                                        !.todo = todo \ {k},
                                        !.pc = "GetAllTasks280"])
           \/ /\ todo = {}
              /\ RespondList(p, IF proc[p].acc = <<>> THEN "null" ELSE "list", proc[p].acc)
    /\ UNCHANGED <<build, tasks, Data, now, uuids, nreq, crashed>>

\* Server.AddTasks, lines 201-213: decode the array (a Decode error is
\* dropped); an empty array is answered at once
AddTasksDecode(p) ==
    /\ ~crashed /\ build = "mapdb"
    /\ proc[p].pc = "AddTasks202"
    /\ \E b \in BatchBodies :
         IF b.tasks = <<>>
         THEN Respond(p, 200, "count", ZeroTask, 0)
         ELSE Goto(p, [proc[p] EXCEPT !.list = b.tasks, !.count = Len(b.tasks),
                                      !.pc = "AddTasks287"])
    /\ UNCHANGED <<build, tasks, Data, now, uuids, nreq, crashed>>

\* MapDB.AddTasks, lines 286-287: next task of the array, read the clock
AddTasksCreatedAt(p) ==
    /\ ~crashed /\ build = "mapdb"
    /\ proc[p].pc = "AddTasks287"
    /\ Goto(p, [proc[p] EXCEPT !.task = AddTasksStamp(Head(proc[p].list), now),
                               !.list = Tail(@),
                               !.pc = "AddTasks288"])
    /\ UNCHANGED <<build, tasks, Data, now, uuids, nreq, crashed>>

\* MapDB.AddTasks, lines 288-289
AddTasksUpdatedAt(p) ==
    /\ ~crashed /\ build = "mapdb"
    /\ proc[p].pc = "AddTasks288"
    /\ Goto(p, [proc[p] EXCEPT !.task = AddTasksFinish(@, now), !.pc = "AddTasks290"])
    /\ UNCHANGED <<build, tasks, Data, now, uuids, nreq, crashed>>

\* MapDB.AddTasks, line 290, under the client's id; after the last task
\* Server.AddTasks answers with the count (lines 209-213)
AddTasksStore(p) ==
    /\ ~crashed /\ build = "mapdb"
    /\ proc[p].pc = "AddTasks290"
    /\ Data' = Put(Data, proc[p].task.ID, proc[p].task)
    /\ IF proc[p].list = <<>>
       THEN RespondStored(p, Data', 200, "count", ZeroTask, proc[p].count)
       ELSE GotoStored(p, Data', [proc[p] EXCEPT !.task = ZeroTask, !.pc = "AddTasks287"])
    /\ UNCHANGED <<build, tasks, now, uuids, nreq, crashed>>

\* Server.GetTask over MapDB.GetTask, lines 236-244, 295-301
GetTask(p) ==
    /\ ~crashed /\ build = "mapdb"
    /\ proc[p].pc = "GetTask296"
    /\ IF proc[p].id \notin DOMAIN Data
       THEN Respond(p, 500, "error", ZeroTask, 0)
       ELSE Respond(p, 200, "task", Data[proc[p].id], 0)
    /\ UNCHANGED <<build, tasks, Data, now, uuids, nreq, crashed>>

\* MapDB.UpdateTask, lines 304-308, answered by Server.UpdateTask, lines 252-255
UpdateTaskLookup(p) ==
    /\ ~crashed /\ build = "mapdb"
    /\ proc[p].pc = "UpdateTask305"
    /\ IF proc[p].id \notin DOMAIN Data
       THEN Respond(p, 500, "error", ZeroTask, 0)
       ELSE Goto(p, [proc[p] EXCEPT !.task = Data[proc[p].id], !.pc = "UpdateTask310"])
    /\ UNCHANGED <<build, tasks, Data, now, uuids, nreq, crashed>>

\* MapDB.UpdateTask, lines 310-321, on the map Server.UpdateTask decoded
\* (lines 247-248: a Decode error is dropped)
UpdateTaskMerge(p) ==
    /\ ~crashed /\ build = "mapdb"
    /\ proc[p].pc = "UpdateTask310"
    /\ \E b \in UpdateBodies :
         Goto(p, [proc[p] EXCEPT !.data = b.data,
                                 !.task = UpdateTask(@, b.data, now),
                                 !.pc = "UpdateTask322"])
    /\ UNCHANGED <<build, tasks, Data, now, uuids, nreq, crashed>>

\* MapDB.UpdateTask, lines 322-323, answered by Server.UpdateTask, lines 257-259
UpdateTaskStore(p) ==
    /\ ~crashed /\ build = "mapdb"
    /\ proc[p].pc = "UpdateTask322"
    /\ Data' = Put(Data, proc[p].id, proc[p].task)
    /\ RespondStored(p, Data', 201, "task", proc[p].task, 0)
    /\ UNCHANGED <<build, tasks, now, uuids, nreq, crashed>>

\* MapDB.ArchiveTask, lines 327-330, answered by Server.ArchiveTask, lines 265-268
ArchiveTaskLookup(p) ==
    /\ ~crashed /\ build = "mapdb"
    /\ proc[p].pc = "ArchiveTask327"
    /\ IF proc[p].id \notin DOMAIN Data
       THEN Respond(p, 500, "error", ZeroTask, 0)
       ELSE Goto(p, [proc[p] EXCEPT !.task = Data[proc[p].id], !.pc = "ArchiveTask331"])
    /\ UNCHANGED <<build, tasks, Data, now, uuids, nreq, crashed>>

\* MapDB.ArchiveTask, line 331
ArchiveTaskArchivedAt(p) ==
    /\ ~crashed /\ build = "mapdb"
    /\ proc[p].pc = "ArchiveTask331"
    /\ Goto(p, [proc[p] EXCEPT !.task = ArchiveTaskMark(@, now), !.pc = "ArchiveTask332"])
    /\ UNCHANGED <<build, tasks, Data, now, uuids, nreq, crashed>>

\* MapDB.ArchiveTask, lines 332-333
ArchiveTaskUpdatedAt(p) ==
    /\ ~crashed /\ build = "mapdb"
    /\ proc[p].pc = "ArchiveTask332"
    /\ Goto(p, [proc[p] EXCEPT !.task = ArchiveTaskFinish(@, now), !.pc = "ArchiveTask334"])
    /\ UNCHANGED <<build, tasks, Data, now, uuids, nreq, crashed>>

\* MapDB.ArchiveTask, lines 334-336, answered by Server.ArchiveTask, lines 269-270
ArchiveTaskStore(p) ==
    /\ ~crashed /\ build = "mapdb"
    /\ proc[p].pc = "ArchiveTask334"
    /\ Data' = Put(Data, proc[p].id, proc[p].task)
    /\ RespondStored(p, Data', 204, "none", ZeroTask, 0)
    /\ UNCHANGED <<build, tasks, now, uuids, nreq, crashed>>

----------------------------------------------------------------------------
(* Unsynchronised access to the map *)

\* the next step of a request at one of these places reads the map
MapReadPcs == {"byID74", "GetTask296", "UpdateTask305", "ArchiveTask327",
               "getTasks46", "getTasks47", "GetAllTasks279", "GetAllTasks280"}
\* the next step of a request at one of these places writes the map
MapWritePcs == {"addTask65", "archiveTask93", "updateTask111",
                "AddTasks290", "UpdateTask322", "ArchiveTask334"}

\* Two goroutines are in a map access at once and one of them writes: a data
\* race.  The runtime's check may see it and end the process ("fatal error:
\* concurrent map writes", "concurrent map read and map write"); when it
\* does not, the accesses take effect one after the other (the steps above).
Fatal ==
    /\ ~crashed
    /\ \E p, q \in Procs :
         /\ p # q
         /\ proc[p].pc \in MapWritePcs
         /\ proc[q].pc \in MapWritePcs \cup MapReadPcs
    /\ crashed' = TRUE
    /\ resp' = NoResp
    /\ UNCHANGED <<build, tasks, Data, now, uuids, proc, nreq, snaps>>

----------------------------------------------------------------------------

\* the next step of the handler serving request p
Step(p) ==
         \/ addTaskDecode(p)
         \/ addTaskUpdatedAt(p)
         \/ addTaskStore(p)
         \/ handlerTaskByID(p)
         \/ archiveTaskArchivedAt(p)
         \/ archiveTaskUpdatedAt(p)
         \/ archiveTaskStore(p)
         \/ updateTaskMerge(p)
         \/ updateTaskStore(p)
         \/ getTasks(p)
         \/ GetAllTasks(p)
         \/ AddTasksDecode(p)
         \/ AddTasksCreatedAt(p)
         \/ AddTasksUpdatedAt(p)
         \/ AddTasksStore(p)
         \/ GetTask(p)
         \/ UpdateTaskLookup(p)
         \/ UpdateTaskMerge(p)
         \/ UpdateTaskStore(p)
         \/ ArchiveTaskLookup(p)
         \/ ArchiveTaskArchivedAt(p)
         \/ ArchiveTaskUpdatedAt(p)
         \/ ArchiveTaskStore(p)

Next ==
    \/ Tick
    \/ Fatal
    \/ \E p \in Procs : Request(p) \/ Step(p)

Spec == Init /\ [][Next]_vars

\* the scheduler lets every goroutine that can run take its next step
FairSpec == Spec /\ \A p \in Procs : WF_vars(Step(p))

----------------------------------------------------------------------------
(* Vocabulary of the properties *)

\* places where the next step of a request stores its copy in the map
CreateStorePcs == {"addTask65", "AddTasks290"}
UpdateStorePcs == {"updateTask111", "UpdateTask322"}
ArchiveStorePcs == {"archiveTask93", "ArchiveTask334"}
\* places where the next step of an Update merges the payload into its copy
UpdateMergePcs == {"updateTask99", "UpdateTask310"}
\* places where the next step of a request looks its id up in the map
LookupPcs == {"byID74", "GetTask296", "UpdateTask305", "ArchiveTask327"}
\* places where the next step of a list request is a turn of its range
ListPcs == {"getTasks46", "getTasks47", "GetAllTasks279", "GetAllTasks280"}

\* this step is the step request p takes from a place in S
StepFrom(p, S) == proc[p].pc \in S /\ proc'[p] # proc[p]

\* the mutation request p carries, applied to record r: what p would store
\* had it read r
Replay(p, r) ==
    CASE proc[p].pc = "updateTask111" -> updateTask(r, proc[p].data, proc[p].task.UpdatedAt)
      [] proc[p].pc = "UpdateTask322" -> UpdateTask(r, proc[p].data, proc[p].task.UpdatedAt)
      [] proc[p].pc = "archiveTask93" ->
            archiveTaskTouch(archiveTaskMark(r, proc[p].task.ArchivedAt), proc[p].task.UpdatedAt)
      [] proc[p].pc = "ArchiveTask334" ->
            ArchiveTaskFinish(ArchiveTaskMark(r, proc[p].task.ArchivedAt), proc[p].task.UpdatedAt)

----------------------------------------------------------------------------
(* Claims *)

\* C1: no lost update.  Whenever an Update or an Archive stores its record,
\* the record stored is its mutation applied to the record the map holds at
\* that moment: it never writes back a copy read before another request's
\* write to the same id.
C1_NoLostUpdate ==
    [][\A p \in Procs :
          StepFrom(p, UpdateStorePcs \cup ArchiveStorePcs)
          => Store'[proc[p].id] = Replay(p, Store[proc[p].id])]_vars

\* C2: every Create adds one new record under an id no stored record has,
\* and overwrites nothing.
C2_CreateAddsFreshId ==
    [][\A p \in Procs :
          StepFrom(p, CreateStorePcs)
          => /\ proc[p].task.ID \notin DOMAIN Store
             /\ \A k \in DOMAIN Store : Store'[k] = Store[k]]_vars

\* C3: created_at of a stored record is not changed when an Update or an
\* Archive on its id stores its record.
C3_CreatedAtKept ==
    [][\A p \in Procs :
          StepFrom(p, UpdateStorePcs \cup ArchiveStorePcs)
          => Store'[proc[p].id].CreatedAt = Store[proc[p].id].CreatedAt]_vars

\* C4: when an Update or an Archive stores its record, the record's
\* updated_at is at least the updated_at stored just before.
C4_UpdatedAtMonotone ==
    [][\A p \in Procs :
          StepFrom(p, UpdateStorePcs \cup ArchiveStorePcs)
          => Store'[proc[p].id].UpdatedAt >= Store[proc[p].id].UpdatedAt]_vars

\* C5: archived_at is non-zero only if an Archive on the id has completed;
\* in particular the record a Create stores under an id the store has never
\* held (so that no Archive on it can have succeeded) has archived_at zero,
\* whatever the body contained.
C5_CreatedUnarchived ==
    [][\A p \in Procs :
          (StepFrom(p, CreateStorePcs) /\ proc[p].task.ID \notin DOMAIN Store)
          => Store'[proc[p].task.ID].ArchivedAt = 0]_vars

\* C6: an Archive on an existing id stores the record with status
\* "archived" and a non-zero archived_at, and a GetByID answers with the
\* status and archived_at the store holds for the id when it is served, so
\* with those of the Archive when no other mutation came in between.
C6_ArchiveThenGet ==
    [][\A p \in Procs :
          /\ StepFrom(p, ArchiveStorePcs)
             => /\ Store'[proc[p].id].Status = "archived"
                /\ Store'[proc[p].id].ArchivedAt # 0
                /\ Store'[proc[p].id].ArchivedAt = proc[p].task.ArchivedAt
          /\ (StepFrom(p, LookupPcs) /\ proc[p].method = "GET"
                /\ proc[p].id \in DOMAIN Store)
             => /\ resp'.kind = "task"
                /\ resp'.body.Status = Store[proc[p].id].Status
                /\ resp'.body.ArchivedAt = Store[proc[p].id].ArchivedAt]_vars

\* C6 witness: a GET has just been answered with the archived record the
\* store holds
C6_Witness ==
    /\ resp.method = "GET" /\ resp.kind = "task"
    /\ resp.body.Status = "archived" /\ resp.body.ArchivedAt # 0
    /\ resp.id \in DOMAIN Store
    /\ Store[resp.id] = resp.body

\* C7: merge semantics.  The record an Update builds from the one it read
\* keeps the status when the payload holds only a title, and keeps the title
\* when the payload holds only a status.
C7_MergeKeepsOtherField ==
    [][\A p \in Procs :
          StepFrom(p, UpdateMergePcs)
          => /\ (IsString(proc'[p].data.title) /\ proc'[p].data.status = Absent)
                => proc'[p].task.Status = proc[p].task.Status
             /\ (IsString(proc'[p].data.status) /\ proc'[p].data.title = Absent)
                => proc'[p].task.Title = proc[p].task.Title]_vars

\* C8: an Update whose payload carries a string status y stores status y and
\* answers with it; with no title in the payload the title is the one read.
C8_StatusApplied ==
    [][\A p \in Procs :
          (StepFrom(p, UpdateStorePcs) /\ IsString(proc[p].data.status))
          => /\ Store'[proc[p].id].Status = proc[p].data.status.val
             /\ resp'.body.Status = proc[p].data.status.val]_vars

\* C9: GetByID, Update and Archive on an id that is no key of the store are
\* answered 404 and leave the store as it was.
C9_AbsentIs404 ==
    [][\A p \in Procs :
          (StepFrom(p, LookupPcs) /\ proc[p].id \notin DOMAIN Store)
          => /\ resp'.code = 404
             /\ Store' = Store]_vars

\* the requests in flight are Updates on pairwise distinct ids of the store,
\* at least two of them
ConcurrentUpdates ==
    LET inflight == {p \in Procs : proc[p].pc # "idle"}
    IN  /\ Cardinality(inflight) >= 2
        /\ \A p \in inflight : proc[p].method = "PUT" /\ proc[p].id \in DOMAIN Store
        /\ \A p, q \in inflight : p # q => proc[p].id # proc[q].id

\* C10: concurrent Updates on pairwise distinct existing ids all succeed:
\* the process serving them is not ended while only they are in flight.
C10_ConcurrentUpdatesSucceed == ConcurrentUpdates => ~crashed

\* the status a Create gives a task
CreationMarkers == {"new", "recently-created"}
\* places where the next step of an Archive works on its copy
ArchiveLocalPcs == {"archiveTask90", "archiveTask92", "ArchiveTask331", "ArchiveTask332"}

\* C11: the record a Create stores has the creation marker as status,
\* created_at = updated_at = the creation time and a zero archived_at,
\* whatever id, status and timestamps the body gave.
C11_CreateIgnoresClientFields ==
    [][\A p \in Procs :
          StepFrom(p, CreateStorePcs)
          => LET r == Store'[proc[p].task.ID]
             IN  /\ r.Status \in CreationMarkers
                 /\ r.CreatedAt = r.UpdatedAt
                 /\ r.CreatedAt # 0
                 /\ r.ArchivedAt = 0]_vars

\* C12: a Create answers with the record it stored, so that a GetByID on
\* the id of the answer, with no mutation in between, gives the same record.
C12_CreateReturnsStored ==
    [][\A p \in Procs :
          (StepFrom(p, CreateStorePcs) /\ proc'[p].pc = "idle")
          => /\ resp'.kind = "task"
             /\ resp'.body.ID \in DOMAIN Store'
             /\ Store'[resp'.body.ID] = resp'.body]_vars

\* C14: every stored task has created_at <= updated_at.
C14_CreatedBeforeUpdated ==
    \A k \in DOMAIN Store : Store[k].CreatedAt <= Store[k].UpdatedAt

\* C14 witness: a stored task has been mutated at a later clock value than
\* the one it was created at
C14_Witness ==
    \E k \in DOMAIN Store :
        /\ Store[k].Status \notin CreationMarkers
        /\ Store[k].CreatedAt < Store[k].UpdatedAt

\* C17: tolerant merge.  When the payload of an Update gives a non-string
\* title or status, that field of the record keeps the value read, a string
\* given for the other field is applied, updated_at is set to the clock and
\* no error status is written.
C17_TolerantMerge ==
    [][\A p \in Procs :
          (StepFrom(p, UpdateMergePcs)
             /\ (proc'[p].data.title = Num \/ proc'[p].data.status = Num))
          => LET d == proc'[p].data
             IN  /\ d.title = Num => proc'[p].task.Title = proc[p].task.Title
                 /\ d.status = Num => proc'[p].task.Status = proc[p].task.Status
                 /\ IsString(d.title) => proc'[p].task.Title = d.title.val
                 /\ IsString(d.status) => proc'[p].task.Status = d.status.val
                 /\ proc'[p].task.UpdatedAt = now
                 /\ proc'[p].code = proc[p].code]_vars

\* C18: an Archive on a task that is already archived is carried out like
\* any other: it is not answered with an error, its steps change only
\* status, archived_at and updated_at of the copy, and it stores the copy
\* with status "archived" and both timestamps read from the clock during
\* the call, answering 204.
C18_RepeatedArchive ==
    [][\A p \in Procs :
          /\ (StepFrom(p, LookupPcs) /\ proc[p].method = "DELETE"
                /\ proc[p].id \in DOMAIN Store)
             => /\ proc'[p].pc \in ArchiveLocalPcs
                /\ proc'[p].task = Store[proc[p].id]
          /\ StepFrom(p, ArchiveLocalPcs)
             => /\ proc'[p].task.ID = proc[p].task.ID
                /\ proc'[p].task.Title = proc[p].task.Title
                /\ proc'[p].task.CreatedAt = proc[p].task.CreatedAt
          /\ (StepFrom(p, ArchiveStorePcs) /\ Store[proc[p].id].Status = "archived")
             => /\ Store'[proc[p].id] = proc[p].task
                /\ proc[p].task.Status = "archived"
                /\ proc[p].task.ArchivedAt # 0
                /\ proc[p].task.ArchivedAt <= proc[p].task.UpdatedAt
                /\ proc[p].task.UpdatedAt <= now
                /\ resp'.code = 204]_vars

\* C19: a request answered 400 leaves the store as it was: no step of a
\* request that has written status 400, or that answers 400, changes the map.
C19_BadInputChangesNothing ==
    [][\A p \in Procs :
          (proc[p].pc # "idle" /\ proc'[p] # proc[p]
             /\ (proc[p].code = 400 \/ resp'.code = 400))
          => Store' = Store]_vars

\* C20: archival is stable.  When the store holds an archived record (status
\* "archived", archived_at non-zero), an Update storing its record on that id
\* leaves archived_at non-zero.
C20_ArchivalStable ==
    [][\A p \in Procs :
          (StepFrom(p, UpdateStorePcs)
             /\ Store[proc[p].id].Status = "archived"
             /\ Store[proc[p].id].ArchivedAt # 0)
          => Store'[proc[p].id].ArchivedAt # 0]_vars

\* C13: no step removes a key from the store; a GetByID on an archived task
\* answers with the stored record; a list answered holds, for every key the
\* map held during the whole call, a record with that id, and holds it as
\* archived when it was archived during the whole call.
C13_IdsNeverRemoved ==
    [][/\ DOMAIN Store \subseteq DOMAIN Store'
       /\ \A p \in Procs :
            /\ (StepFrom(p, LookupPcs) /\ proc[p].method = "GET"
                  /\ proc[p].id \in DOMAIN Store
                  /\ Store[proc[p].id].Status = "archived")
               => /\ resp'.kind = "task"
                  /\ resp'.body = Store[proc[p].id]
            /\ (StepFrom(p, ListPcs) /\ proc'[p].pc = "idle")
               => \A k \in DOMAIN Store :
                     (\A s \in snaps[p] : k \in DOMAIN s)
                     => \E r \in resp'.items :
                           /\ r.ID = k
                           /\ (\A s \in snaps[p] : s[k].Status = "archived")
                              => r.Status = "archived"]_vars

\* C13 witness: a list has just been answered that holds an archived task of
\* the store
C13_Witness ==
    /\ resp.kind = "list"
    /\ \E r \in resp.items :
          /\ r.Status = "archived"
          /\ r.ID \in DOMAIN Store
          /\ Store[r.ID] = r

\* C15: snapshot semantics.  The records a list request is answered with are
\* the records of the map as it was at one moment between the arrival of
\* the request and its answer.
C15_ListIsSnapshot ==
    [][\A p \in Procs :
          (StepFrom(p, ListPcs) /\ proc'[p].pc = "idle")
          => \E s \in snaps[p] : resp'.items = Records(s)]_vars

\* C16: termination.  Under fair scheduling every request that has started
\* is eventually answered.
C16_EveryRequestCompletes ==
    \A p \in Procs : (proc[p].pc # "idle") ~> (proc[p].pc = "idle")

====
